---- MODULE Spec2Model ----
(***************************************************************************)
(* State-machine model of the IP-Blogs backend: the auth middleware        *)
(* (middleware/validateUser.mjs), the post routes (routes/posts.mjs) and   *)
(* the register route (auth router).                                       *)
(*                                                                         *)
(* A request occupies a slot r \in Reqs.  A handler runs atomically from   *)
(* one await to the next; req[r].pc names the call the handler is          *)
(* currently awaiting.  Every awaited call (pool.connect, client.query,    *)
(* pool.query, the media upload, bcrypt.hash) may succeed or fail.         *)
(*                                                                         *)
(* Database: posts / attachmentRows are the committed tables; tx[c] holds  *)
(* the uncommitted rows of the transaction open on pooled connection c.    *)
(* A ROLLBACK that fails means the connection is lost: the server aborts   *)
(* the transaction, so its rows are dropped when the client is released.   *)
(* A statement that rejects has had no effect.                             *)
(*                                                                         *)
(* Spec allows an awaited call never to return; LiveSpec adds that every   *)
(* awaited call of a post creation eventually returns.                     *)
(*                                                                         *)
(* Behaviours are bounded: NumReqs requests at a time, MaxArrivals         *)
(* requests in all, MaxPosts of them creating posts.                       *)
(***************************************************************************)
EXTENDS Integers, Sequences, FiniteSets, TLC

\* ---------------------------------------------------------------- bounds
NumReqs == 2
PoolSize == 2
MaxPosts == 2
MaxLen == 2
MaxArrivals == 3

\* ------------------------------------------------------ program constants
MaxFiles == 5
MaxFileSize == 10485760

Reqs == 1..NumReqs
Conns == 1..PoolSize
Users == {1, 2}
Emails == {"e1"}

Undefined == "<undefined>"
NoHeader == <<Undefined>>
NoToken == <<Undefined>>
NoUser == [id |-> 0]
NoClient == 0

\* ------------------------------------------------------------- strings
\* A string is a sequence of chunks; " " is the only separator chunk.
StartsWith(s, p) == Len(p) <= Len(s) /\ SubSeq(s, 1, Len(p)) = p

RECURSIVE SplitFrom(_, _, _, _)
SplitFrom(s, sep, i, cur) ==
    IF i > Len(s) THEN <<cur>>
    ELSE IF s[i] = sep THEN <<cur>> \o SplitFrom(s, sep, i + 1, <<>>)
    ELSE SplitFrom(s, sep, i + 1, Append(cur, s[i]))

\* String.prototype.split(" ")
Split(s, sep) == SplitFrom(s, sep, 1, <<>>)

\* ------------------------------------------------------------- tokens
\* What jwt.verify knows about a token string: whether signature and expiry
\* check out, and the claims it carries.
TokenTable ==
    { [tok |-> <<"jwt1">>, ok |-> TRUE, id |-> 1],
      [tok |-> <<"jwt2">>, ok |-> TRUE, id |-> 2],
      [tok |-> <<"expired1">>, ok |-> FALSE, id |-> 1],
      [tok |-> <<"forged2">>, ok |-> FALSE, id |-> 2] }

Headers ==
    { NoHeader,
      <<"Bearer">>,
      <<"Bearer", " ">>,
      <<"Bearer", " ", "jwt1">>,
      <<"Bearer", " ", "jwt2">>,
      <<"Bearer", " ", "expired1">>,
      <<"Bearer", " ", "forged2">> }

\* req.headers.authorization?.split(" ")[1]
TokenOf(h) ==
    IF h = NoHeader THEN NoToken
    ELSE LET parts == Split(h, " ")
         IN IF Len(parts) >= 2 THEN parts[2] ELSE NoToken

\* !token
TokenMissing(t) == t = NoToken \/ t = <<>>

\* (a verification that checks the signature but not the expiry)
JwtVerifiesIgnoringExpiry(t) == \E e \in TokenTable : e.tok = t /\ (e.ok \/ e.tok = <<"expired1">>)

\* jwt.verify(token, secret): TRUE iff it returns instead of throwing
JwtVerifies(t) == \E e \in TokenTable : e.tok = t /\ e.ok

\* the payload of a token
JwtDecoded(t) == [id |-> (CHOOSE e \in TokenTable : e.tok = t).id]

\* (jwt.decode in place of jwt.verify: the payload is read, nothing is checked)
verifyTokenDecodeOnly(h) ==
    LET token == TokenOf(h)
    IN IF TokenMissing(token)
       THEN [status |-> 401, user |-> NoUser, next |-> FALSE]
       ELSE IF \E e \in TokenTable : e.tok = token
       THEN [status |-> 0, user |-> JwtDecoded(token), next |-> TRUE]
       ELSE [status |-> 403, user |-> NoUser, next |-> FALSE]

\* verifyToken(req, res, next): the response it sends (status 0: none), the
\* claims it attaches and whether it calls next().
verifyToken(h) ==
    LET token == TokenOf(h)
    IN IF TokenMissing(token)
       THEN [status |-> 401, user |-> NoUser, next |-> FALSE]
       ELSE IF JwtVerifies(token)
       THEN [status |-> 0, user |-> JwtDecoded(token), next |-> TRUE]
       ELSE [status |-> 403, user |-> NoUser, next |-> FALSE]

\* -------------------------------------------------------------- files
ImagePng == <<"image", "/", "png">>
VideoMp4 == <<"video", "/", "mp4">>
AppPdf == <<"application", "/", "pdf">>
AppJson == <<"application", "/", "json">>
TextPlain == <<"text", "/", "plain">>

File(m, n) == [mimetype |-> m, size |-> n]

\* files a request may carry
Good == <<File(ImagePng, 1), File(VideoMp4, 1), File(AppPdf, 1)>>
Bad == {File(AppJson, 1), File(TextPlain, 1), File(ImagePng, MaxFileSize + 1)}

\* n consecutive files of the cycle image, video, pdf, starting at its k-th
Run(k, n) == [i \in 1..n |-> Good[((k + i - 2) % 3) + 1]]

\* The file lists a multipart request may carry: one run of good files of each
\* length up to MaxLen, the same with one file replaced by a bad one, and one
\* list with more files than upload.array("files", 5) takes.
GoodLists == { Run(n, n) : n \in 0..MaxLen }
BadLists == UNION { { [Run(n, n) EXCEPT ![i] = b] : i \in 1..n, b \in Bad } : n \in 1..MaxLen }
FileLists == GoodLists \cup BadLists \cup { Run(1, MaxFiles + 1) }

\* (the filter with "application/" in place of "application/pdf")
fileFilterAnyApplication(file) ==
    \E type \in { <<"image", "/">>, <<"video", "/">>, <<"application", "/">> } :
        StartsWith(file.mimetype, type)

\* fileFilter: allowed.some((type) => file.mimetype.startsWith(type))
fileFilter(file) ==
    \E type \in { <<"image", "/">>, <<"video", "/">>, <<"application", "/", "pdf">> } :
        StartsWith(file.mimetype, type)

\* multer hands the request on only if every file passes the filter and the
\* size limit and there are at most MaxFiles of them.
MulterAccepts(fs) ==
    /\ Len(fs) <= MaxFiles
    /\ \A i \in 1..Len(fs) : fileFilter(fs[i]) /\ fs[i].size <= MaxFileSize

\* the type tag pushed with an uploaded file
AttachmentType(mimetype) ==
    IF StartsWith(mimetype, <<"image">>) THEN "image"
    ELSE IF StartsWith(mimetype, <<"video">>) THEN "video"
    ELSE "pdf"

\* -------------------------------------------------------------- bodies
Falsy(v) == v = Undefined \/ v = ""

Body(t, d, c) == [title |-> t, description |-> d, content |-> c]
NoBody == Body(Undefined, Undefined, Undefined)

\* multipart bodies: the complete one, and one per field left out or left empty
PostBodies ==
    { Body("a", "a", "a"), NoBody, Body("", "a", "a"), Body("a", Undefined, "a"), Body("a", "a", "") }
PutBodies == { Body("b", "b", "b") }
Passwords == { "pw", Undefined }

\* (only the title is required)
MissingTitleOnly(b) == Falsy(b.title)

\* !title || !description || !content
MissingFields(b) == Falsy(b.title) \/ Falsy(b.description) \/ Falsy(b.content)

\* ------------------------------------------------------------ responses
Json(status, id, atts) == [status |-> status, json |-> TRUE, id |-> id, attachments |-> atts]
\* the framework's default error handler (multer's next(err)): not JSON
DefaultError == [status |-> 500, json |-> FALSE, id |-> 0, attachments |-> <<>>]

\* ---------------------------------------------------------------- state
VARIABLES
    req,             \* req[r]: the request in slot r and its handler's locals
    pool,            \* pool[c]: the request holding connection c, or 0
    tx,              \* tx[c]: the transaction open on connection c
    posts,           \* committed rows of table posts
    attachmentRows,  \* committed rows of table attachments, in insertion order
    nextId,          \* the posts id sequence
    media,           \* URLs of the objects stored at the media host
    users,           \* emails of the committed rows of table users
    arrivals         \* number of requests received so far

vars == <<req, pool, tx, posts, attachmentRows, nextId, media, users, arrivals>>

EmptyTx == [open |-> FALSE, posts |-> {}, attachments |-> <<>>]

Idle ==
    [ pc |-> "idle", method |-> "", hdr |-> NoHeader, user |-> NoUser,
      body |-> NoBody, files |-> <<>>, id |-> 0, email |-> "", password |-> "",
      client |-> NoClient, postId |-> 0, attachments |-> <<>>, fileIdx |-> 0,
      err |-> "", res |-> <<>>, escaped |-> FALSE,
      \* history of the request, for stating properties
      nexts |-> 0, acquired |-> 0, released |-> 0, stmts |-> <<>>,
      started |-> 0, succeeded |-> 0, uploadFailed |-> FALSE, rejected |-> FALSE ]

Init ==
    /\ req = [r \in Reqs |-> Idle]
    /\ pool = [c \in Conns |-> 0]
    /\ tx = [c \in Conns |-> EmptyTx]
    /\ posts = {}
    /\ attachmentRows = <<>>
    /\ nextId = 1
    /\ media = {}
    /\ users = {}
    /\ arrivals = 0

Free(r) == req[r].pc \in {"idle", "done", "returned"}

\* a request arrives in slot r
Arrive(r) == Free(r) /\ arrivals < MaxArrivals /\ arrivals' = arrivals + 1

Set(r, rec) == req' = [req EXCEPT ![r] = rec]

\* res.status(s).json(...)
Send(rec, resp) == [rec EXCEPT !.res = Append(@, resp), !.pc = "done"]

\* Once an async route handler has returned, its locals are garbage: what
\* stays of the request is who asked for what (method, claims, :id), its
\* response, whether an error left the handler, and the pool's bookkeeping.
Returned(rec) ==
    [Idle EXCEPT !.pc = "returned", !.method = rec.method, !.user = rec.user,
                 !.id = rec.id, !.res = rec.res, !.escaped = rec.escaped,
                 !.acquired = rec.acquired, !.released = rec.released]

\* A request of the given method arrives in a free slot carrying header h and
\* passes through verifyToken; nextPc is where the downstream handler waits.
AfterAuth(method, h, nextPc) ==
    LET v == verifyToken(h)
        sent == IF v.status = 0 THEN <<>> ELSE <<Json(v.status, 0, <<>>)>>
    IN [Idle EXCEPT !.method = method, !.hdr = h, !.user = v.user,
                    !.res = sent, !.nexts = IF v.next THEN 1 ELSE 0,
                    !.pc = IF v.next THEN nextPc ELSE "done"]

\* ids the sequence has handed out or will hand out to requests under way
Reserved == (nextId - 1) + Cardinality({ q \in Reqs : req[q].pc \in {"multer", "connect", "begin", "insert"} })

\* ------------------------------------------------------- POST /posts
\* router.post("/", verifyToken, ...): arrival and the auth middleware
ArrivePost(r) ==
    /\ Arrive(r)
    /\ Reserved < MaxPosts
    /\ \E h \in Headers : Set(r, AfterAuth("POST", h, "multer"))
    /\ UNCHANGED <<pool, tx, posts, attachmentRows, nextId, media, users>>

\* client.query(text) is called: the statement is on its way
Issue(rec, stmt, nextPc) == [rec EXCEPT !.stmts = Append(@, stmt), !.pc = nextPc]

\* throw inside the try block: its block-scoped locals are gone and the catch
\* block calls client.query("ROLLBACK")
Catch(rec, msg) ==
    Issue([rec EXCEPT !.err = msg, !.attachments = <<>>, !.fileIdx = 0,
                      !.files = <<>>, !.body = NoBody, !.started = 0, !.succeeded = 0],
          "ROLLBACK", "rollback")

\* upload.array("files", 5) parses the multipart request, then the handler
\* runs up to its first await: validation and pool.connect()
Multer(r) ==
    /\ req[r].pc = "multer"
    /\ \E fs \in FileLists, b \in PostBodies :
         IF ~MulterAccepts(fs)
         THEN Set(r, Send([req[r] EXCEPT !.files = fs, !.rejected = TRUE], DefaultError))
         ELSE LET rec == [req[r] EXCEPT !.files = fs, !.body = b]
              IN IF MissingFields(b)
                 THEN Set(r, Send(rec, Json(400, 0, <<>>)))
                 ELSE Set(r, [rec EXCEPT !.pc = "connect"])
    /\ UNCHANGED <<pool, tx, posts, attachmentRows, nextId, media, users, arrivals>>

\* the idle client the pool hands out
IdleClient == CHOOSE c \in Conns : pool[c] = 0 /\ \A d \in Conns : pool[d] = 0 => c <= d

\* const client = await pool.connect() returns; then client.query("BEGIN")
ConnectReturns(r) ==
    /\ req[r].pc = "connect"
    /\ \/ /\ \E c \in Conns : pool[c] = 0
          /\ pool' = [pool EXCEPT ![IdleClient] = r]
          /\ Set(r, Issue([req[r] EXCEPT !.client = IdleClient, !.acquired = @ + 1], "BEGIN", "begin"))
       \/ \* pool.connect() rejects outside the try block
          /\ Set(r, Returned([req[r] EXCEPT !.escaped = TRUE]))
          /\ UNCHANGED pool
    /\ UNCHANGED <<tx, posts, attachmentRows, nextId, media, users, arrivals>>

\* await client.query("BEGIN") returns; then the INSERT INTO posts is sent
BeginReturns(r) ==
    /\ req[r].pc = "begin"
    /\ \/ /\ tx' = [tx EXCEPT ![req[r].client].open = TRUE]
          /\ Set(r, Issue(req[r], "INSERT posts", "insert"))
       \/ /\ Set(r, Catch(req[r], "query failed"))
          /\ UNCHANGED tx
    /\ UNCHANGED <<pool, posts, attachmentRows, nextId, media, users, arrivals>>

PostRow(id, userId, b) ==
    [id |-> id, user_id |-> userId, title |-> b.title, description |-> b.description, content |-> b.content]

\* (req.files.map(async ...): every upload stream is started at once)
StartUploadAll(rec, i) ==
    [rec EXCEPT !.fileIdx = i, !.started = IF i = 1 THEN Len(rec.files) ELSE @, !.pc = "upload"]

\* the loop body up to its await: the upload stream of file i is started
StartUpload(rec, i) == [rec EXCEPT !.fileIdx = i, !.started = @ + 1, !.pc = "upload"]

\* (COMMIT sent right after the loop, the batch insert left out)
IssueCommitAfterUploads(rec) == Issue(rec, "COMMIT", "commit")

\* after the loop: the batch INSERT INTO attachments is sent
IssueAttachments(rec) == Issue(rec, "INSERT attachments", "attins")

\* await client.query("INSERT INTO posts ... RETURNING *") returns
InsertPostReturns(r) ==
    /\ req[r].pc = "insert"
    /\ \/ /\ tx' = [tx EXCEPT ![req[r].client].posts = @ \cup {PostRow(nextId, req[r].user.id, req[r].body)}]
          /\ nextId' = nextId + 1
          /\ LET rec == [req[r] EXCEPT !.postId = nextId]
             IN IF Len(req[r].files) > 0
                THEN Set(r, StartUpload(rec, 1))
                ELSE Set(r, Issue(rec, "COMMIT", "commit"))
       \/ /\ Set(r, Catch(req[r], "query failed"))
          /\ UNCHANGED <<tx, nextId>>
    /\ UNCHANGED <<pool, posts, attachmentRows, media, users, arrivals>>

\* the URL the media host returns for file i of the request creating post id
SecureUrl(id, i) == <<id, i>>

\* (a fixed public_id: each upload replaces the object stored before)
StoreOverwriting(m, url) == {url}

\* upload_stream stores the object under a new URL; nothing is ever destroyed
Store(m, url) == m \cup {url}

\* the upload callback of file fileIdx fires
UploadReturns(r) ==
    /\ req[r].pc = "upload"
    /\ LET i == req[r].fileIdx
           url == SecureUrl(req[r].postId, i)
           att == [url |-> url, type |-> AttachmentType(req[r].files[i].mimetype)]
           rec == [req[r] EXCEPT !.attachments = Append(@, att), !.succeeded = @ + 1]
       IN \/ /\ media' = Store(media, url)
             /\ IF i < Len(req[r].files)
                THEN Set(r, StartUpload(rec, i + 1))
                ELSE Set(r, IssueAttachments(rec))
          \/ /\ Set(r, Catch([req[r] EXCEPT !.uploadFailed = TRUE], "File upload failed"))
             /\ UNCHANGED media
    /\ UNCHANGED <<pool, tx, posts, attachmentRows, nextId, users, arrivals>>

\* (the row stores the media host's resource_type, not the tag pushed with the file)
AttachmentRowRawType(id, att) == [post_id |-> id, url |-> att.url, type |-> "raw"]

AttachmentRow(id, att) == [post_id |-> id, url |-> att.url, type |-> att.type]

\* (placeholders that do not advance with i: every row binds $2 and $3)
InsertValuesFirstPair(id, atts) == [i \in 1..Len(atts) |-> AttachmentRow(id, atts[1])]

\* the rows of INSERT INTO attachments (post_id, url, type) VALUES ($1, $2, $3), ...
InsertValues(id, atts) == [i \in 1..Len(atts) |-> AttachmentRow(id, atts[i])]

\* a statement sent through the pool instead of the client runs outside the
\* transaction and is committed at once
PoolInsert(t, table, rows) == [tx |-> t, table |-> table \o rows]

\* client.query(insertAttachmentQuery, values): the rows join the client's
\* open transaction; the committed table is untouched
ClientInsert(t, table, rows) == [tx |-> [t EXCEPT !.attachments = @ \o rows], table |-> table]

\* await client.query(insertAttachmentQuery, values) returns; then COMMIT
InsertAttachmentsReturns(r) ==
    /\ req[r].pc = "attins"
    /\ \/ LET e == ClientInsert(tx[req[r].client], attachmentRows,
                                InsertValues(req[r].postId, req[r].attachments))
          IN /\ tx' = [tx EXCEPT ![req[r].client] = e.tx]
             /\ attachmentRows' = e.table
             /\ Set(r, Issue(req[r], "COMMIT", "commit"))
       \/ /\ Set(r, Catch(req[r], "query failed"))
          /\ UNCHANGED <<tx, attachmentRows>>
    /\ UNCHANGED <<pool, posts, nextId, media, users, arrivals>>

\* finally { client.release() }: the client goes back to the pool; a
\* transaction still open on it is lost with the connection.
\* (ReleaseTwice: release() called in the catch block and again in finally.)
ReleaseTwice(rec) == Returned([rec EXCEPT !.released = @ + 2])

Release(rec) == Returned([rec EXCEPT !.released = @ + 1])

\* (every client of the pool is released, not only the request's own)
FinallyReleaseAll(r) ==
    /\ pool' = [c \in Conns |-> 0]

Finally(r) ==
    /\ pool' = [pool EXCEPT ![req[r].client] = 0]

\* await client.query("COMMIT") returns; then the 201 response and finally
CommitReturns(r) ==
    /\ req[r].pc = "commit"
    /\ LET c == req[r].client
       IN \/ /\ posts' = posts \cup tx[c].posts
             /\ attachmentRows' = attachmentRows \o tx[c].attachments
             /\ tx' = [tx EXCEPT ![c] = EmptyTx]
             /\ Set(r, Release(Send(req[r], Json(201, req[r].postId, req[r].attachments))))
             /\ Finally(r)
          \/ /\ Set(r, Catch(req[r], "query failed"))
             /\ UNCHANGED <<pool, tx, posts, attachmentRows>>
    /\ UNCHANGED <<nextId, media, users, arrivals>>

\* await client.query("ROLLBACK") returns inside the catch block; finally
RollbackReturns(r) ==
    /\ req[r].pc = "rollback"
    /\ \/ Set(r, Release(Send(req[r], Json(500, 0, <<>>))))
       \/ \* the ROLLBACK itself rejects: the error leaves the catch block
          Set(r, Release([req[r] EXCEPT !.escaped = TRUE]))
    /\ tx' = [tx EXCEPT ![req[r].client] = EmptyTx]
    /\ Finally(r)
    /\ UNCHANGED <<posts, attachmentRows, nextId, media, users, arrivals>>

\* ---------------------------------------------------- PUT /posts/:id
PostIds == 1..MaxPosts

\* router.put("/:id", verifyToken, ...): arrival, the auth middleware and the
\* handler up to its await of pool.query("UPDATE posts ...")
ArrivePut(r) ==
    /\ Arrive(r)
    /\ \E h \in Headers, id \in PostIds, b \in PutBodies :
         LET a == AfterAuth("PUT", h, "put")
         IN Set(r, IF a.nexts > 0
                   THEN [a EXCEPT !.id = id, !.body = b, !.stmts = <<"UPDATE posts">>]
                   ELSE a)
    /\ UNCHANGED <<pool, tx, posts, attachmentRows, nextId, media, users>>

\* (the same statement without AND user_id=$5)
UpdateHitsAnyOwner(rows, id, userId) == { p \in rows : p.id = id }

\* UPDATE posts SET title=$1, description=$2, content=$3 WHERE id=$4 AND user_id=$5
UpdateHits(rows, id, userId) == { p \in rows : p.id = id /\ p.user_id = userId }

\* (the same statement without AND user_id=$5 and with user_id=$5 in its SET list)
UpdatePostsTakingOwnership(rows, b, id, userId) ==
    { p \in rows : p.id # id } \cup { PostRow(p.id, userId, b) : p \in { q \in rows : q.id = id } }

UpdatePosts(rows, b, id, userId) ==
    (rows \ UpdateHits(rows, id, userId))
    \cup { PostRow(p.id, p.user_id, b) : p \in UpdateHits(rows, id, userId) }

\* await pool.query("UPDATE posts ...") returns
PutReturns(r) ==
    /\ req[r].pc = "put"
    /\ \/ /\ posts' = UpdatePosts(posts, req[r].body, req[r].id, req[r].user.id)
          /\ IF UpdateHits(posts, req[r].id, req[r].user.id) = {}
             THEN Set(r, Returned(Send(req[r], Json(403, 0, <<>>))))
             ELSE Set(r, Returned(Send(req[r], Json(200, req[r].id, <<>>))))
       \/ /\ Set(r, Returned(Send(req[r], Json(500, 0, <<>>))))
          /\ UNCHANGED posts
    /\ UNCHANGED <<pool, tx, attachmentRows, nextId, media, users, arrivals>>

\* ------------------------------------------------- DELETE /posts/:id
\* router.delete("/:id", verifyToken, ...): arrival, the auth middleware and
\* the handler up to its await of pool.query("DELETE FROM posts ...")
ArriveDelete(r) ==
    /\ Arrive(r)
    /\ \E h \in Headers, id \in PostIds :
         LET a == AfterAuth("DELETE", h, "delete")
         IN Set(r, IF a.nexts > 0
                   THEN [a EXCEPT !.id = id, !.stmts = <<"DELETE posts">>]
                   ELSE a)
    /\ UNCHANGED <<pool, tx, posts, attachmentRows, nextId, media, users>>

\* DELETE FROM posts WHERE id=$1 AND user_id=$2
DeleteHits(rows, id, userId) == { p \in rows : p.id = id /\ p.user_id = userId }

\* (rows that are only marked as deleted stay in the table)
DeletePostsSoft(rows, id, userId) == rows

\* the table after the DELETE
DeletePosts(rows, id, userId) == rows \ DeleteHits(rows, id, userId)

\* the store destroys the attachments of a destroyed post
Cascade(atts, gone) == SelectSeq(atts, LAMBDA a : a.post_id \notin { p.id : p \in gone })

\* await pool.query("DELETE FROM posts ...") returns
DeleteReturns(r) ==
    /\ req[r].pc = "delete"
    /\ LET hit == DeleteHits(posts, req[r].id, req[r].user.id)
       IN \/ /\ posts' = DeletePosts(posts, req[r].id, req[r].user.id)
             /\ attachmentRows' = Cascade(attachmentRows, hit)
             /\ IF hit = {}
                THEN Set(r, Returned(Send(req[r], Json(403, 0, <<>>))))
                ELSE Set(r, Returned(Send(req[r], Json(200, 0, <<>>))))
          \/ /\ Set(r, Returned(Send(req[r], Json(500, 0, <<>>))))
             /\ UNCHANGED <<posts, attachmentRows>>
    /\ UNCHANGED <<pool, tx, nextId, media, users, arrivals>>

\* ---------------------------------------------------- GET /posts/:id
\* router.get("/:id", ...): arrival and the handler up to its await
ArriveGet(r) ==
    /\ Arrive(r)
    /\ \E id \in PostIds :
         Set(r, [Idle EXCEPT !.method = "GET", !.id = id, !.stmts = <<"SELECT posts">>, !.pc = "get"])
    /\ UNCHANGED <<pool, tx, posts, attachmentRows, nextId, media, users>>

\* SELECT ... FROM posts ... LEFT JOIN attachments ... WHERE posts.id = $1
SelectPost(rows, id) == { p \in rows : p.id = id }
SelectAttachments(atts, id) == SelectSeq(atts, LAMBDA a : a.post_id = id)

\* await pool.query("SELECT ...") returns
GetReturns(r) ==
    /\ req[r].pc = "get"
    /\ \/ IF SelectPost(posts, req[r].id) = {}
          THEN Set(r, Returned(Send(req[r], Json(404, 0, <<>>))))
          ELSE Set(r, Returned(Send(req[r], Json(200, req[r].id, <<>>))))
       \/ Set(r, Returned(Send(req[r], Json(500, 0, <<>>))))
    /\ UNCHANGED <<pool, tx, posts, attachmentRows, nextId, media, users, arrivals>>

\* ---------------------------------------------------- POST /register
\* router.post("/register", ...): arrival and the handler up to its await of
\* bcrypt.hash(password, 10), which is outside the try block
ArriveRegister(r) ==
    /\ Arrive(r)
    /\ \E e \in Emails, pw \in Passwords :
         Set(r, [Idle EXCEPT !.method = "REGISTER", !.email = e, !.password = pw, !.pc = "hash"])
    /\ UNCHANGED <<pool, tx, posts, attachmentRows, nextId, media, users>>

\* bcrypt.hash rejects a password that is no string
HashRejects(pw) == pw = Undefined

\* await bcrypt.hash(password, 10) returns; then the INSERT INTO users is sent
HashReturns(r) ==
    /\ req[r].pc = "hash"
    /\ IF HashRejects(req[r].password)
       THEN Set(r, Returned([req[r] EXCEPT !.escaped = TRUE]))
       ELSE Set(r, Issue(req[r], "INSERT users", "reginsert"))
    /\ UNCHANGED <<pool, tx, posts, attachmentRows, nextId, media, users, arrivals>>

\* await pool.query("INSERT INTO users ...") returns; email is unique
RegisterInsertReturns(r) ==
    /\ req[r].pc = "reginsert"
    /\ \/ /\ req[r].email \notin users
          /\ users' = users \cup {req[r].email}
          /\ Set(r, Returned(Send(req[r], Json(201, 0, <<>>))))
       \/ /\ Set(r, Returned(Send(req[r], Json(500, 0, <<>>))))
          /\ UNCHANGED users
    /\ UNCHANGED <<pool, tx, posts, attachmentRows, nextId, media, arrivals>>

Next ==
    \E r \in Reqs :
        \/ ArrivePost(r)
        \/ Multer(r)
        \/ ConnectReturns(r)
        \/ BeginReturns(r)
        \/ InsertPostReturns(r)
        \/ UploadReturns(r)
        \/ InsertAttachmentsReturns(r)
        \/ CommitReturns(r)
        \/ RollbackReturns(r)
        \/ ArrivePut(r)
        \/ PutReturns(r)
        \/ ArriveDelete(r)
        \/ DeleteReturns(r)
        \/ ArriveGet(r)
        \/ GetReturns(r)
        \/ ArriveRegister(r)
        \/ HashReturns(r)
        \/ RegisterInsertReturns(r)

Spec == Init /\ [][Next]_vars

\* Every awaited call of a post creation eventually returns, with success
\* or failure: the event loop runs the continuation of a settled promise.
Fairness ==
    \A r \in Reqs :
        /\ WF_vars(Multer(r))
        /\ WF_vars(ConnectReturns(r))
        /\ WF_vars(BeginReturns(r))
        /\ WF_vars(InsertPostReturns(r))
        /\ WF_vars(UploadReturns(r))
        /\ WF_vars(InsertAttachmentsReturns(r))
        /\ WF_vars(CommitReturns(r))
        /\ WF_vars(RollbackReturns(r))

LiveSpec == Spec /\ Fairness

\* =====================================================================
\* Properties
\* =====================================================================
Mutating == {"POST", "PUT", "DELETE"}
InFlight(r) == ~Free(r)

\* ---------------------------------------------------------------------
\* C1: for every POST /posts request in which some attachment upload
\* fails, when the request ends its transaction has been rolled back, the
\* post row it inserted is not in the table, and its response is 500.
C1_UploadFailureRollsBackWith500 ==
    [][\A r \in Reqs :
         (req[r].pc = "rollback" /\ req[r].uploadFailed /\ req'[r].pc = "returned")
         => /\ req'[r].res = <<Json(500, 0, <<>>)>>
            /\ ~req'[r].escaped
            /\ \A p \in posts' : p.id # req[r].postId]_vars

\* ---------------------------------------------------------------------
\* C2: in every committed database state every attachment row references
\* a committed post row.
C2_AttachmentsHaveCommittedPost ==
    \A i \in 1..Len(attachmentRows) : \E p \in posts : p.id = attachmentRows[i].post_id

\* attachment rows are committed while another request's transaction holds
\* attachment rows of its own that are not committed (yet)
C2_Witness ==
    /\ Len(attachmentRows) > 0
    /\ \E c \in Conns : tx[c].attachments # <<>>

\* ---------------------------------------------------------------------
\* C3: a request releases its pool connection exactly once, whatever the
\* outcome; a connection is checked out by exactly the request holding it,
\* and when no request is under way no connection is checked out.
C3_ReleasedExactlyOnce ==
    /\ \A r \in Reqs :
         /\ req[r].released <= req[r].acquired
         /\ req[r].acquired <= 1
         /\ Free(r) => req[r].released = req[r].acquired
         /\ (req[r].acquired = 1 /\ req[r].released = 0)
              <=> (req[r].client # NoClient /\ pool[req[r].client] = r)
    /\ \A c \in Conns : pool[c] # 0 => (InFlight(pool[c]) /\ req[pool[c]].client = c)
    /\ (\A r \in Reqs : Free(r)) => \A c \in Conns : pool[c] = 0

\* a request whose ROLLBACK failed has returned, its connection released,
\* while the other connection is still held by a request under way
C3_Witness ==
    \E r \in Reqs :
        /\ req[r].pc = "returned" /\ req[r].escaped
        /\ req[r].acquired = 1 /\ req[r].released = 1
        /\ \E c \in Conns : pool[c] # 0

\* ---------------------------------------------------------------------
\* What a header is, read off the header itself: it carries a token if a
\* non-empty word follows the first space; the token is valid for user u if
\* it is one the token service signed for u and it has not expired.
CarriesToken(h) == h # NoHeader /\ Len(h) >= 3 /\ h[2] = " " /\ h[3] # " "
ValidFor(h, u) ==
    CarriesToken(h) /\ \E e \in TokenTable : e.ok /\ e.id = u /\ e.tok = SubSeq(h, 3, Len(h))
Valid(h) == \E u \in Users : ValidFor(h, u)

\* the requests whose header is still known: those on a mutating route that
\* the middleware or the parser answered, or whose handler is under way
Gated(r) == req[r].method \in Mutating /\ req[r].pc # "returned"

\* C4: the auth middleware has exactly three outcomes: no token -> 401 and
\* no downstream call; token fails verification -> 403 and no downstream
\* call; otherwise the decoded claims are attached, the downstream handler
\* is called exactly once and the middleware sends no response.
C4_MiddlewareOutcomes ==
    \A r \in Reqs :
        Gated(r) =>
            LET h == req[r].hdr
            IN /\ ~CarriesToken(h) =>
                    /\ req[r].pc = "done" /\ req[r].res = <<Json(401, 0, <<>>)>>
                    /\ req[r].nexts = 0 /\ req[r].user = NoUser
               /\ (CarriesToken(h) /\ ~Valid(h)) =>
                    /\ req[r].pc = "done" /\ req[r].res = <<Json(403, 0, <<>>)>>
                    /\ req[r].nexts = 0 /\ req[r].user = NoUser
               /\ \A u \in Users : ValidFor(h, u) =>
                    /\ req[r].nexts = 1 /\ req[r].user = [id |-> u]
                    /\ \A i \in 1..Len(req[r].res) : req[r].res[i].status \notin {401, 403}

\* one request was turned away with 403 for an expired token while the PUT
\* handler of another runs with the claims of user 2
C4_Witness ==
    \E r, q \in Reqs :
        /\ req[r].hdr = <<"Bearer", " ", "expired1">> /\ req[r].res = <<Json(403, 0, <<>>)>>
        /\ req[q].pc = "put" /\ req[q].user = [id |-> 2] /\ req[q].nexts = 1

\* ---------------------------------------------------------------------
\* C5: a POST, PUT or DELETE request whose token is missing or fails
\* verification ends in the middleware: it acquires no connection, issues no
\* statement and starts no upload; and every step that changes posts,
\* attachments, a transaction, the pool or the media host is a step of a
\* request with a valid token.
C5_Ungated(r) ==
    /\ req[r].pc = "done" /\ req[r].acquired = 0 /\ req[r].client = NoClient
    /\ req[r].stmts = <<>> /\ req[r].started = 0

C5_AuthIsSoleGate ==
    /\ [](\A r \in Reqs : (Gated(r) /\ ~Valid(req[r].hdr)) => C5_Ungated(r))
    /\ [][<<posts, attachmentRows, tx, pool, media>>' # <<posts, attachmentRows, tx, pool, media>>
            => \E r \in Reqs : InFlight(r) /\ req'[r] # req[r] /\ Valid(req[r].hdr)]_vars

\* a DELETE with a forged token of user 2 was turned away while a post of
\* user 2 is in the table
C5_Witness ==
    \E r \in Reqs :
        /\ req[r].method = "DELETE" /\ req[r].pc = "done"
        /\ req[r].hdr = <<"Bearer", " ", "forged2">>
        /\ \E p \in posts : p.user_id = 2

\* ---------------------------------------------------------------------
\* a PUT or DELETE of request r returns in this step, and the post it names
\* exists and belongs to another user than the one in r's token
C6_ForeignReturn(r) ==
    /\ req[r].pc \in {"put", "delete"} /\ req'[r].pc = "returned"
    /\ \E p \in posts : p.id = req[r].id /\ p.user_id # req[r].user.id

\* C6 as stated: a token of user A fails to authorize a PUT or DELETE on a
\* post of user B: the response is 403 and the post row is unchanged.
C6_ForeignAlways403 ==
    [][\A r \in Reqs :
         C6_ForeignReturn(r) =>
            /\ req'[r].res = <<Json(403, 0, <<>>)>>
            /\ posts' = posts /\ attachmentRows' = attachmentRows]_vars

\* C6 as amended: the response is 403, or 500 when the query itself fails;
\* either way the post row (and its attachments) is unchanged.
C6_Foreign403Or500 ==
    [][\A r \in Reqs :
         C6_ForeignReturn(r) =>
            /\ req'[r].res \in {<<Json(403, 0, <<>>)>>, <<Json(500, 0, <<>>)>>}
            /\ posts' = posts /\ attachmentRows' = attachmentRows]_vars

\* user 2's PUT on the post of user 1 has returned 403 and the row still
\* carries what user 1 wrote
C6_Witness ==
    \E r \in Reqs :
        /\ req[r].method = "PUT" /\ req[r].pc = "returned" /\ req[r].user = [id |-> 2]
        /\ req[r].res = <<Json(403, 0, <<>>)>>
        /\ PostRow(req[r].id, 1, Body("a", "a", "a")) \in posts

\* ---------------------------------------------------------------------
\* the type a file's MIME prefix stands for
C7_TypeOf(mimetype) ==
    CASE StartsWith(mimetype, <<"image", "/">>) -> "image"
      [] StartsWith(mimetype, <<"video", "/">>) -> "video"
      [] StartsWith(mimetype, <<"application", "/", "pdf">>) -> "pdf"
      [] OTHER -> "none"

\* the POST of request r returns 201 in this step
C7_Created(r) ==
    /\ req[r].pc = "commit" /\ req'[r].pc = "returned"
    /\ Len(req'[r].res) = 1 /\ req'[r].res[1].status = 201

\* C7: a successful POST /posts with N files (0 <= N <= 5) commits one post
\* row and exactly N attachment rows for the new post id, the i-th carrying
\* the URL returned for the i-th file and the type of that file's MIME
\* prefix, and answers with those N attachments (none when N = 0).
C7_CreatedRowsMatchFiles ==
    [][\A r \in Reqs :
         C7_Created(r) =>
            LET id == req[r].postId
                n == Len(req[r].files)
                sent == [i \in 1..n |-> [url |-> SecureUrl(id, i),
                                        type |-> C7_TypeOf(req[r].files[i].mimetype)]]
            IN /\ n <= MaxFiles
               /\ { p \in posts : p.id = id } = {}
               /\ Cardinality({ p \in posts' : p.id = id }) = 1
               /\ \A i \in 1..n : SecureUrl(id, i) \in media
               /\ SelectAttachments(attachmentRows, id) = <<>>
               /\ SelectAttachments(attachmentRows', id)
                    = [i \in 1..n |-> [post_id |-> id, url |-> sent[i].url, type |-> sent[i].type]]
               /\ req'[r].res[1].id = id
               /\ req'[r].res[1].attachments = sent]_vars

\* one POST has returned 201 with no attachment and no attachment row, another
\* with two attachments and two attachment rows
C7_Witness ==
    \E r, q \in Reqs :
        /\ req[r].pc = "returned" /\ req[r].res # <<>> /\ req[r].res[1].status = 201
        /\ req[r].res[1].attachments = <<>>
        /\ SelectAttachments(attachmentRows, req[r].res[1].id) = <<>>
        /\ req[q].pc = "returned" /\ req[q].res # <<>> /\ req[q].res[1].status = 201
        /\ Len(req[q].res[1].attachments) = 2
        /\ Len(SelectAttachments(attachmentRows, req[q].res[1].id)) = 2

\* ---------------------------------------------------------------------
\* C8: the uploads of one request are strictly sequential in file order:
\* at most one is in flight, the upload of file i+1 is started only after
\* the upload of file i has succeeded, and once an upload has failed no
\* further upload of the request is started.
C8_SequentialUploads ==
    \A r \in Reqs :
        /\ req[r].pc = "upload" =>
              /\ req[r].started = req[r].succeeded + 1
              /\ req[r].fileIdx = req[r].started
              /\ Len(req[r].attachments) = req[r].succeeded
        /\ req[r].pc # "upload" => req[r].started = req[r].succeeded
        /\ req[r].uploadFailed => req[r].pc = "rollback"

\* the second upload of a request is in flight after its first succeeded
C8_Witness ==
    \E r \in Reqs : req[r].pc = "upload" /\ req[r].fileIdx = 2 /\ req[r].succeeded = 1

\* ---------------------------------------------------------------------
\* a file over the size cap or of a MIME type outside image/, video/,
\* application/pdf
C9_BadFile(f) ==
    \/ f.size > 10 * 1024 * 1024
    \/ ~(\/ StartsWith(f.mimetype, <<"image", "/">>)
         \/ StartsWith(f.mimetype, <<"video", "/">>)
         \/ StartsWith(f.mimetype, <<"application", "/", "pdf">>))

\* C9: a POST /posts request containing a file over the size cap or of a
\* disallowed MIME type is rejected before any DB write: it acquires no
\* connection, issues no statement and starts no upload.
C9_BadFileRejectedBeforeDb ==
    \A r \in Reqs :
        (req[r].method = "POST" /\ \E i \in 1..Len(req[r].files) : C9_BadFile(req[r].files[i]))
        => /\ req[r].pc = "done" /\ req[r].rejected
           /\ req[r].acquired = 0 /\ req[r].client = NoClient
           /\ req[r].stmts = <<>> /\ req[r].started = 0

\* a request with an application/json file and one with an oversized image
\* were both rejected
C9_Witness ==
    \E r, q \in Reqs :
        /\ req[r].rejected /\ \E i \in 1..Len(req[r].files) : req[r].files[i].mimetype = AppJson
        /\ req[q].rejected /\ \E i \in 1..Len(req[q].files) : req[q].files[i].size > MaxFileSize

\* ---------------------------------------------------------------------
\* C10: every request that got past the parser ends with exactly one JSON
\* response and no error escapes its handler, whichever call failed.
C10_EveryFailureAnswered ==
    \A r \in Reqs :
        (req[r].pc \in {"done", "returned"} /\ ~req[r].rejected)
        => /\ ~req[r].escaped
           /\ Len(req[r].res) = 1 /\ req[r].res[1].json

\* ---------------------------------------------------------------------
\* C11: a POST /posts request rejected for a bad file type or file size is
\* answered with status 400, the status of a request with missing fields.
C11_BadFileAnswered400 ==
    \A r \in Reqs :
        (/\ req[r].method = "POST" /\ req[r].pc = "done"
         /\ \E i \in 1..Len(req[r].files) : C9_BadFile(req[r].files[i]))
        => /\ Len(req[r].res) = 1
           /\ req[r].res[1].status = 400

\* ---------------------------------------------------------------------
\* a DELETE of post id by its owner has succeeded (answered 200)
C12_Deleted(id) ==
    \E q \in Reqs :
        /\ req[q].method = "DELETE" /\ req[q].pc = "returned" /\ req[q].id = id
        /\ req[q].res = <<Json(200, 0, <<>>)>>

\* a PUT or DELETE of request r on an already deleted post returns in this step
C12_SecondAttempt(r) ==
    /\ req[r].pc \in {"put", "delete"} /\ req'[r].pc = "returned"
    /\ C12_Deleted(req[r].id)

\* C12 as stated: after the owner's DELETE of a post has succeeded, every
\* later DELETE or PUT on the same post id, by any user, returns 403 and
\* changes no row.
C12_SecondAttemptAlways403 ==
    [][\A r \in Reqs :
         C12_SecondAttempt(r) =>
            /\ req'[r].res = <<Json(403, 0, <<>>)>>
            /\ posts' = posts /\ attachmentRows' = attachmentRows]_vars

\* C12 as amended: every later DELETE or PUT on the same post id returns
\* 403, or 500 when the query itself fails, and changes no row.
C12_SecondAttempt403Or500 ==
    [][\A r \in Reqs :
         C12_SecondAttempt(r) =>
            /\ req'[r].res \in {<<Json(403, 0, <<>>)>>, <<Json(500, 0, <<>>)>>}
            /\ posts' = posts /\ attachmentRows' = attachmentRows]_vars

\* the owner's DELETE of a post was answered 200 and the same user's next
\* request on that post id was answered 403
C12_Witness ==
    \E r, q \in Reqs :
        /\ req[q].method = "DELETE" /\ req[q].pc = "returned"
        /\ req[q].res = <<Json(200, 0, <<>>)>>
        /\ req[r].method \in {"PUT", "DELETE"} /\ req[r].pc = "returned"
        /\ req[r].id = req[q].id /\ req[r].user = req[q].user
        /\ req[r].res = <<Json(403, 0, <<>>)>>

\* ---------------------------------------------------------------------
\* C13: a post's owner is immutable: a row enters the table only at the
\* COMMIT of the request that created it, with the id of that request's
\* token claims as user_id, and every row that stays in the table keeps
\* its user_id in every step, whoever creates, updates or deletes.
C13_OwnerImmutable ==
    [][\A p \in posts' :
         \/ \E q \in posts : q.id = p.id /\ q.user_id = p.user_id
         \/ /\ \A q \in posts : q.id # p.id
            /\ \E r \in Reqs :
                 /\ req[r].method = "POST" /\ req[r].pc = "commit"
                 /\ req[r].postId = p.id
                 /\ ValidFor(req[r].hdr, p.user_id)]_vars

\* the post of user 1 was updated by user 1, then user 2's PUT on it was
\* answered 403: the row carries the update and still belongs to user 1
C13_Witness ==
    \E r \in Reqs :
        /\ req[r].method = "PUT" /\ req[r].pc = "returned" /\ req[r].user = [id |-> 2]
        /\ req[r].res = <<Json(403, 0, <<>>)>>
        /\ PostRow(req[r].id, 1, Body("b", "b", "b")) \in posts

\* ---------------------------------------------------------------------
\* the statements of the happy path of a post creation with n files
C14_Happy(n) ==
    <<"BEGIN", "INSERT posts">> \o (IF n > 0 THEN <<"INSERT attachments">> ELSE <<>>) \o <<"COMMIT">>

C14_IsPrefix(s, t) == Len(s) <= Len(t) /\ SubSeq(t, 1, Len(s)) = s

\* where the statements issued so far put request r in the state machine
\* Idle -> TransactionOpen -> UploadsInFlight -> RowsInserted -> Committed
C14_InOrder(r) ==
    LET s == req[r].stmts
        c == req[r].client
        n == Len(req[r].files)
        own == { p \in tx[c].posts : p.id = req[r].postId }
    IN CASE req[r].pc = "begin" -> s = <<"BEGIN">> /\ ~tx[c].open
         [] req[r].pc = "insert" -> s = <<"BEGIN", "INSERT posts">> /\ tx[c].open /\ own = {}
         [] req[r].pc = "upload" ->
              /\ s = <<"BEGIN", "INSERT posts">> /\ Cardinality(own) = 1
              /\ req[r].succeeded < n /\ tx[c].attachments = <<>>
         [] req[r].pc = "attins" ->
              /\ s = <<"BEGIN", "INSERT posts", "INSERT attachments">> /\ Cardinality(own) = 1
              /\ n > 0 /\ req[r].succeeded = n /\ tx[c].attachments = <<>>
         [] req[r].pc = "commit" ->
              /\ s = C14_Happy(n) /\ Cardinality(own) = 1
              /\ req[r].started = n /\ req[r].succeeded = n
              /\ Len(tx[c].attachments) = n
         [] req[r].pc = "rollback" ->
              /\ s[Len(s)] = "ROLLBACK"
              /\ \E k \in 0..MaxFiles : C14_IsPrefix(SubSeq(s, 1, Len(s) - 1), C14_Happy(k))
              /\ \A p \in posts : p.id # req[r].postId
         [] OTHER -> TRUE

\* C14: a post creation issues BEGIN, the post insert, (after all uploads
\* have succeeded) the attachment insert and COMMIT in this order, COMMIT
\* only after all of them have succeeded; ROLLBACK may follow any of them
\* on error; the request ends with the step after a successful COMMIT or
\* after ROLLBACK, so no statement follows ROLLBACK and no ROLLBACK follows
\* a successful COMMIT.
C14_StateMachine ==
    /\ [](\A r \in Reqs : req[r].method = "POST" => C14_InOrder(r))
    /\ [][\A r \in Reqs :
            /\ (req[r].pc = "rollback" /\ req'[r] # req[r])
                 => /\ req'[r].pc = "returned"
                    /\ tx'[req[r].client] = EmptyTx
                    /\ \A p \in posts' : p.id # req[r].postId
            /\ (req[r].pc = "commit" /\ \E p \in posts' : p.id = req[r].postId)
                 => /\ req'[r].pc = "returned"
                    /\ tx'[req[r].client] = EmptyTx
            /\ (req[r].pc = "commit" /\ req'[r] # req[r])
                 => req'[r].pc \in {"returned", "rollback"}]_vars

\* one request is rolling back after its COMMIT failed, all its statements
\* before it having succeeded, while another has committed
C14_Witness ==
    \E r, q \in Reqs :
        /\ req[r].pc = "rollback"
        /\ req[r].stmts = <<"BEGIN", "INSERT posts", "INSERT attachments", "COMMIT", "ROLLBACK">>
        /\ req[q].pc = "returned" /\ req[q].res # <<>> /\ req[q].res[1].status = 201

\* ---------------------------------------------------------------------
\* the media objects uploaded for post id
C15_MediaOf(m, id) == { u \in m : u[1] = id }

\* C15: the set of remote media objects never shrinks; when a post creation
\* goes to rollback after k of its uploads succeeded, exactly those k
\* objects are stored, and when the rollback is over they are still stored
\* while no post row and no attachment row references them.
C15_RollbackKeepsMedia ==
    [][/\ media \subseteq media'
       /\ \A r \in Reqs :
            /\ (req[r].pc \in {"upload", "attins", "commit"} /\ req'[r].pc = "rollback")
                 => C15_MediaOf(media', req[r].postId)
                      = { SecureUrl(req[r].postId, i) : i \in 1..req[r].succeeded }
            /\ (req[r].pc = "rollback" /\ req'[r].pc = "returned")
                 => /\ C15_MediaOf(media', req[r].postId) = C15_MediaOf(media, req[r].postId)
                    /\ \A p \in posts' : p.id # req[r].postId
                    /\ \A i \in 1..Len(attachmentRows') :
                         /\ attachmentRows'[i].post_id # req[r].postId
                         /\ attachmentRows'[i].url \notin C15_MediaOf(media, req[r].postId)]_vars

\* every request has ended, one post creation with 500, and two media
\* objects of one post id are stored for which no post row exists
C15_Witness ==
    /\ \A r \in Reqs : Free(r)
    /\ \E r \in Reqs :
         req[r].method = "POST" /\ req[r].pc = "returned" /\ req[r].res = <<Json(500, 0, <<>>)>>
    /\ \E id \in PostIds :
         /\ Cardinality(C15_MediaOf(media, id)) = 2
         /\ \A p \in posts : p.id # id
         /\ \A i \in 1..Len(attachmentRows) : attachmentRows[i].post_id # id

\* ---------------------------------------------------------------------
\* every checked-out connection is held by one request under way, no
\* request holds two, and an open transaction holds rows of its holder only
C16_Exclusive ==
    /\ \A c \in Conns : pool[c] # 0 => (InFlight(pool[c]) /\ req[pool[c]].client = c)
    /\ \A r, q \in Reqs :
         (r # q /\ InFlight(r) /\ InFlight(q) /\ req[r].client # NoClient)
         => req[r].client # req[q].client
    /\ \A c \in Conns :
         tx[c] # EmptyTx =>
            /\ pool[c] # 0
            /\ \A p \in tx[c].posts : p.id = req[pool[c]].postId
            /\ \A i \in 1..Len(tx[c].attachments) : tx[c].attachments[i].post_id = req[pool[c]].postId

\* C16: under any interleaving of POST /posts requests a checked-out
\* connection is held by exactly one request from its acquisition to its
\* release, a transaction changes only in a step of the request holding its
\* connection, and the end of a rollback removes the rows of that request's
\* own transaction only: the committed tables and the other transactions
\* stay as they are.
C16_ConnectionIsolation ==
    /\ []C16_Exclusive
    /\ [][/\ \A c \in Conns :
              /\ (pool[c] # 0 /\ pool'[c] # pool[c])
                   => /\ pool'[c] = 0
                      /\ req'[pool[c]].pc = "returned"
                      /\ req'[pool[c]].released = 1
              /\ tx'[c] # tx[c]
                   => /\ pool[c] # 0
                      /\ req[pool[c]].pc \in {"begin", "insert", "attins", "commit", "rollback"}
                      /\ req'[pool[c]] # req[pool[c]]
          /\ \A r \in Reqs :
              (req[r].pc = "rollback" /\ req'[r] # req[r])
                   => /\ posts' = posts /\ attachmentRows' = attachmentRows
                      /\ tx'[req[r].client] = EmptyTx
                      /\ \A d \in Conns \ {req[r].client} : tx'[d] = tx[d] /\ pool'[d] = pool[d]]_vars

\* one post creation has been rolled back and answered 500 while the
\* transaction of another, on its own connection, still holds its post row
C16_Witness ==
    \E r, q \in Reqs :
        /\ req[r].method = "POST" /\ req[r].pc = "returned"
        /\ req[r].res = <<Json(500, 0, <<>>)>> /\ req[r].released = 1
        /\ req[q].pc = "commit" /\ tx[req[q].client].posts # {}

\* ---------------------------------------------------------------------
\* title, description or content is missing or empty
C17_Missing(b) ==
    \E v \in {b.title, b.description, b.content} : v \in {Undefined, ""}

\* request r has had no effect
C17_NoEffect(r) ==
    /\ req[r].acquired = 0 /\ req[r].client = NoClient /\ \A c \in Conns : pool[c] # r
    /\ req[r].stmts = <<>> /\ req[r].started = 0 /\ req[r].postId = 0

\* C17: an authenticated POST /posts request with title, description or
\* content missing or empty is answered 400 by the very step that parses
\* it, a step that changes neither pool, transactions, tables, id sequence
\* nor media host, whatever files it carries; so no handler past validation
\* runs with an incomplete body.
C17_MissingFields400NoEffect ==
    /\ [](\A r \in Reqs :
            /\ (req[r].method = "POST"
                  /\ req[r].pc \in {"connect", "begin", "insert", "upload", "attins", "commit"})
                 => ~C17_Missing(req[r].body)
            /\ (req[r].method = "POST" /\ req[r].pc = "done"
                  /\ Valid(req[r].hdr) /\ ~req[r].rejected)
                 => /\ C17_Missing(req[r].body)
                    /\ req[r].res = <<Json(400, 0, <<>>)>>
                    /\ C17_NoEffect(r))
    /\ [][\A r \in Reqs :
            (/\ req[r].method = "POST" /\ req[r].pc = "multer" /\ req'[r].pc # "multer"
             /\ ~req'[r].rejected /\ C17_Missing(req'[r].body))
            => /\ req'[r].pc = "done"
               /\ req'[r].res = <<Json(400, 0, <<>>)>>
               /\ UNCHANGED <<pool, tx, posts, attachmentRows, nextId, media>>]_vars

\* a request of user 1 with an empty content field and two valid files was
\* answered 400
C17_Witness ==
    \E r \in Reqs :
        /\ req[r].method = "POST" /\ req[r].pc = "done" /\ req[r].user = [id |-> 1]
        /\ req[r].body = Body("a", "a", "") /\ req[r].files = Run(2, 2)
        /\ req[r].res = <<Json(400, 0, <<>>)>>

\* ---------------------------------------------------------------------
\* the response request r sends in this step
C18_Sent(r) == req'[r].res[Len(req'[r].res)]

\* C18: the response of POST /posts agrees with the database outcome: 201
\* is sent only by the step in which COMMIT succeeds, and then the post row
\* of the response's id and exactly the attachments the response lists are
\* committed; 500 is sent only when the request's post row is not
\* committed.
C18_ResponseAgreesWithDb ==
    [][\A r \in Reqs :
         (req[r].method = "POST" /\ InFlight(r) /\ req'[r].res # req[r].res)
         => /\ req[r].res = <<>> /\ Len(req'[r].res) = 1
            /\ C18_Sent(r).status \in {201, 400, 500}
            /\ C18_Sent(r).status = 201 =>
                 /\ req[r].pc = "commit" /\ req[r].stmts[Len(req[r].stmts)] = "COMMIT"
                 /\ C18_Sent(r).id = req[r].postId
                 /\ \A p \in posts : p.id # req[r].postId
                 /\ { p \in posts' : p.id = req[r].postId }
                      = { PostRow(req[r].postId, req[r].user.id, req[r].body) }
                 /\ SelectAttachments(attachmentRows', req[r].postId)
                      = [i \in 1..Len(C18_Sent(r).attachments) |->
                           [post_id |-> req[r].postId,
                            url |-> C18_Sent(r).attachments[i].url,
                            type |-> C18_Sent(r).attachments[i].type]]
            /\ C18_Sent(r).status = 500 =>
                 /\ \A p \in posts' : p.id # req[r].postId
                 /\ \A i \in 1..Len(attachmentRows') : attachmentRows'[i].post_id # req[r].postId]_vars

\* one post creation was answered 201 with two attachments, another 500
\* after it had inserted its post row; the table holds the first one's
\* row only
C18_Witness ==
    \E r, q \in Reqs :
        /\ req[r].method = "POST" /\ req[r].pc = "returned"
        /\ req[r].res # <<>> /\ req[r].res[1].status = 201
        /\ Len(req[r].res[1].attachments) = 2
        /\ req[q].method = "POST" /\ req[q].pc = "returned"
        /\ req[q].res = <<Json(500, 0, <<>>)>>
        /\ nextId = 3
        /\ { p.id : p \in posts } = { req[r].res[1].id }

\* ---------------------------------------------------------------------
\* C19: provided every DB call and every upload call eventually returns,
\* every authenticated, validated POST /posts request that the pool has
\* granted a connection eventually ends having sent a response and
\* released its connection.
C19_GrantedRequestAnswersAndReleases ==
    \A r \in Reqs :
        (req[r].method = "POST" /\ req[r].pc = "begin")
        ~> (/\ req[r].pc = "returned" /\ Len(req[r].res) = 1
            /\ req[r].released = 1 /\ \A c \in Conns : pool[c] # r)

====
